---------------------------- MODULE Spec2Model ----------------------------
(***************************************************************************)
(* gatsby-plugin-advanced-sitemap (large-site fork): the onPostBuild       *)
(* pipeline of src/gatsby-node.js.  One build is one run of onPostBuild:   *)
(* default query, custom queries (single, sequential, paged with           *)
(* fallback), custom serializers and exclusion rules in runQuery,          *)
(* serialize feeding the sitemap manager, the stylesheet copy, rendering   *)
(* and the per-document writes.                                            *)
(*                                                                         *)
(* Strings that the code inspects character by character (slugs and        *)
(* literal exclusion rules) are sequences of one-character strings.        *)
(* The query handler (graphql), the file system and the user's plugin      *)
(* options are the environment: their values are drawn in Init or chosen   *)
(* when the response arrives.                                              *)
(***************************************************************************)
EXTENDS Integers, Sequences, FiniteSets, TLC

(* ------------------------------ bounds -------------------------------- *)
MaxSlugLen == 3
MaxPages == 3
MaxPerPage == 2
MaxInvocations == 2

(* ----------------------- values of the environment -------------------- *)
Chars == {"/", "a"}

SeqsFromTo(S, lo, hi) == UNION {[1..k -> S] : k \in lo..hi}

Slugs == SeqsFromTo(Chars, 1, MaxSlugLen)

\* A record of a source: node.slug and the field a predicate rule reads.
Nodes == [slug : Slugs, flag : BOOLEAN]

RECURSIVE SetToSeq(_)
SetToSeq(S) ==
    IF S = {} THEN <<>>
    ELSE LET x == CHOOSE y \in S : TRUE IN <<x>> \o SetToSeq(S \ {x})

\* The value r.data?.[queryKey] of a response: undefined, or an object with
\* (possibly) an edges array and pageInfo.hasNextPage.
Undefined == [defined |-> FALSE, hasEdges |-> FALSE, edges |-> <<>>, hasNextPage |-> FALSE]
Data(edges, more) == [defined |-> TRUE, hasEdges |-> TRUE, edges |-> edges, hasNextPage |-> more]
NoEdges == [defined |-> TRUE, hasEdges |-> FALSE, edges |-> <<>>, hasNextPage |-> FALSE]

RECURSIVE Flatten(_)
Flatten(pages) ==
    IF pages = <<>> THEN <<>> ELSE Head(pages) \o Flatten(Tail(pages))

(* ---------------------- runQuery: exclusion rules ---------------------- *)
\* String.prototype.replace(/^\/|\/$/, ""): the pattern has no g flag, so
\* only the first match is replaced: the leading slash when there is one,
\* otherwise the trailing slash.
StripSlash(s) ==
    IF s # <<>> /\ Head(s) = "/" THEN Tail(s)
    ELSE IF s # <<>> /\ s[Len(s)] = "/" THEN SubSeq(s, 1, Len(s) - 1)
    ELSE s

\* s.indexOf(t) >= 0
Contains(s, t) ==
    \E i \in 0..(Len(s) - Len(t)) : SubSeq(s, i + 1, i + Len(t)) = t

IsPrefix(t, s) == Len(t) <= Len(s) /\ SubSeq(s, 1, Len(t)) = t

\* Exclusion rules: a literal string, a regular expression (/pat/ or
\* /^pat/), a predicate (node) => node.flag, or an object that is no valid
\* regular expression.
StringRule(p) == [kind |-> "string", pat |-> p, anchored |-> FALSE]
RegexRule(p, anch) == [kind |-> "regex", pat |-> p, anchored |-> anch]
FunctionRule == [kind |-> "function", pat |-> <<>>, anchored |-> FALSE]
InvalidRule == [kind |-> "invalid", pat |-> <<>>, anchored |-> FALSE]

\* The callback of exclude.some for one rule and one node:
\* "match", "nomatch" or "throw".
RuleOutcome(excludedRoute, node) ==
    LET slug == StripSlash(node.slug)
    IN  IF excludedRoute.kind = "function"
        THEN IF node.flag THEN "match" ELSE "nomatch"
        ELSE IF excludedRoute.kind = "invalid" THEN "throw"
        ELSE IF excludedRoute.kind = "regex"
        THEN IF (IF excludedRoute.anchored
                 THEN IsPrefix(excludedRoute.pat, slug)
                 ELSE Contains(slug, excludedRoute.pat))
             THEN "match" ELSE "nomatch"
        ELSE IF Contains(slug, StripSlash(excludedRoute.pat))
             THEN "match" ELSE "nomatch"

\* Mutant: only the first rule of the list is tried.
SomeRuleFirstOnly(exclude, node) ==
    IF exclude = <<>> THEN "nomatch" ELSE RuleOutcome(Head(exclude), node)

\* exclude.some(...): rules are tried in list order, stopping at the first
\* match or at the first rule that throws.
RECURSIVE SomeRule(_, _)
SomeRule(exclude, node) ==
    IF exclude = <<>> THEN "nomatch"
    ELSE LET o == RuleOutcome(Head(exclude), node)
         IN  IF o = "nomatch" THEN SomeRule(Tail(exclude), node) ELSE o

\* edges.filter(({node}) => !exclude.some(...)): the kept edges, or err when
\* a rule threw.
FilterEdges(edges, exclude) ==
    IF \E i \in 1..Len(edges) : SomeRule(exclude, edges[i]) = "throw"
    THEN [err |-> TRUE, edges |-> <<>>]
    ELSE [err |-> FALSE,
          edges |-> SelectSeq(edges, LAMBDA node : SomeRule(exclude, node) = "nomatch")]


(* ------------------ runQuery: serializers and exclusion ---------------- *)
Reverse(s) == [i \in 1..Len(s) |-> s[Len(s) + 1 - i]]

\* The custom serializers a mapping can carry: none, (edges) => edges.slice(0, 1),
\* (edges) => edges.reverse(), and one that returns no array.
Serializers == {"none", "first", "reverse", "nonarray"}

SerializerResult(kind, edges) ==
    IF kind = "first" THEN SubSeq(edges, 1, IF Len(edges) > 0 THEN 1 ELSE 0)
    ELSE Reverse(edges)

\* typeof mapping?.[sourceKey]?.serializer === "function"
HasSerializer(hasMapping, mapping, sourceKey) ==
    /\ hasMapping
    /\ sourceKey \in DOMAIN mapping
    /\ mapping[sourceKey].serializer # "none"

\* Mutant: the exclusion rules are applied first and the serializer gets
\* the filtered edges.
ProcessSourceFilterFirst(acc, sourceKey, hasMapping, mapping, exclude) ==
    LET s == acc.sources[sourceKey]
        f == IF s.defined /\ s.hasEdges /\ Len(s.edges) > 0
             THEN FilterEdges(s.edges, exclude)
             ELSE [err |-> FALSE, edges |-> s.edges]
        call == HasSerializer(hasMapping, mapping, sourceKey) /\ s.defined /\ s.hasEdges
        calls == IF call /\ ~f.err
                 THEN Append(acc.calls, [sourceKey |-> sourceKey, edges |-> f.edges])
                 ELSE acc.calls
        thrown == call /\ mapping[sourceKey].serializer = "nonarray"
        out == IF call /\ ~thrown /\ ~f.err
               THEN SerializerResult(mapping[sourceKey].serializer, f.edges)
               ELSE f.edges
    IN  IF acc.err # "none" THEN acc
        ELSE IF f.err THEN [acc EXCEPT !.err = "exclude"]
        ELSE IF thrown THEN [acc EXCEPT !.err = "serializer", !.calls = calls]
        ELSE [acc EXCEPT !.calls = calls,
                         !.sources = [acc.sources EXCEPT ![sourceKey] = [s EXCEPT !.edges = out]]]

\* The body of Object.keys(sources).forEach for one sourceKey.  acc holds
\* the sources object, the log of serializer invocations and the error
\* thrown so far.
ProcessSource(acc, sourceKey, hasMapping, mapping, exclude) ==
    LET s == acc.sources[sourceKey]
        call == HasSerializer(hasMapping, mapping, sourceKey) /\ s.defined /\ s.hasEdges
        calls == IF call
                 THEN Append(acc.calls, [sourceKey |-> sourceKey, edges |-> s.edges])
                 ELSE acc.calls
        thrown == call /\ mapping[sourceKey].serializer = "nonarray"
        s1 == IF call /\ ~thrown
              THEN [s EXCEPT !.edges = SerializerResult(mapping[sourceKey].serializer, s.edges)]
              ELSE s
        f == IF s1.defined /\ s1.hasEdges /\ Len(s1.edges) > 0
             THEN FilterEdges(s1.edges, exclude)
             ELSE [err |-> FALSE, edges |-> s1.edges]
    IN  IF acc.err # "none" THEN acc
        ELSE IF thrown THEN [acc EXCEPT !.err = "serializer", !.calls = calls]
        ELSE IF f.err
        THEN [acc EXCEPT !.err = "exclude", !.calls = calls,
                         !.sources = [acc.sources EXCEPT ![sourceKey] = s1]]
        ELSE [acc EXCEPT !.calls = calls,
                         !.sources = [acc.sources EXCEPT ![sourceKey] = [s1 EXCEPT !.edges = f.edges]]]

\* Object.keys(sources).forEach(...) of runQuery, keys in insertion order.
RECURSIVE ProcessSources(_, _, _, _, _)
ProcessSources(acc, keys, hasMapping, mapping, exclude) ==
    IF keys = <<>> THEN acc
    ELSE ProcessSources(ProcessSource(acc, Head(keys), hasMapping, mapping, exclude),
                        Tail(keys), hasMapping, mapping, exclude)

(* --------------------- splitQueryInSmallerBatches ---------------------- *)
DefaultPageSize == 100

\* splitQueryPageSize = 100 as default parameter; 0 stands for an option
\* that is not set (undefined).
ItemsPerPage(splitQueryPageSize) ==
    IF splitQueryPageSize = 0 THEN DefaultPageSize ELSE splitQueryPageSize

\* A request to the handler: handler(queryString, {limit, skip}) when paged,
\* handler(queryString) otherwise.
PagedRequest(queryKey, limit, skip) ==
    [query |-> queryKey, paged |-> TRUE, limit |-> limit, skip |-> skip]
PlainRequest(queryKey) ==
    [query |-> queryKey, paged |-> FALSE, limit |-> 0, skip |-> 0]

\* Mutant: the skip is the page number, not the number of records to skip.
PageRequestUnscaled(queryKey, itemsPerPage, currentPage) ==
    PagedRequest(queryKey, itemsPerPage, currentPage)

\* The request fetchPages issues for page number currentPage (0-based):
\* { limit: itemsPerPage, skip: currentPage * itemsPerPage }.
PageRequest(queryKey, itemsPerPage, currentPage) ==
    PagedRequest(queryKey, itemsPerPage, currentPage * itemsPerPage)

\* tempData?.pageInfo?.hasNextPage
WantsNextPage(tempData) == tempData.defined /\ tempData.hasNextPage

\* Lines 83-93 of fetchPages: the page's own data, with the edges of the
\* later pages appended only when both edge lists are non-empty.
MergePage(tempData, tempDataMore) ==
    IF /\ tempData.hasEdges /\ Len(tempData.edges) > 0
       /\ tempDataMore.defined /\ tempDataMore.hasEdges
       /\ Len(tempDataMore.edges) > 0
    THEN [tempData EXCEPT !.edges = tempData.edges \o tempDataMore.edges]
    ELSE tempData

\* The return of the nested fetchPages calls: pending holds the tempData of
\* the pages that reported hasNextPage, outermost first.
RECURSIVE Unwind(_, _)
Unwind(pending, tempData) ==
    IF pending = <<>> THEN tempData
    ELSE Unwind(SubSeq(pending, 1, Len(pending) - 1),
                MergePage(pending[Len(pending)], tempData))


(* ------------------------------- state --------------------------------- *)
VARIABLES
    opts,                \* the options of this onPostBuild run
    env,                 \* what the data source holds (answers of graphql)
    pluginOptions,       \* the pluginOptions onPostBuild was called with
    defaultOptions,      \* the module-level defaultOptions object
    invocations,         \* calls of onPostBuild so far
    pc,                  \* position of onPostBuild
    err,                 \* the error onPostBuild rejected with ("none": none)
    errAt,               \* the position at which it was thrown
    qi,                  \* runQueriesSequentially: index of the current item
    currentPage,         \* splitQueryInSmallerBatches: currentPage
    pending,             \* tempData of the fetchPages calls awaiting a later page
    outstanding,         \* requests handed to the handler and not yet settled
    reqLog,              \* every request issued, in order
    respLog,             \* the outcome of every settled request, in order
    responsesObject,     \* runQueriesSequentially: responsesObject
    delayed,             \* query keys whose 1 s delay has elapsed
    defaultQueryRecords, \* onPostBuild: defaultQueryRecords
    queryRecords,        \* onPostBuild: queryRecords
    serializerCalls,     \* invocations of custom serializers, with arguments
    siteURL,             \* the module-level siteURL
    fed,                 \* calls of manager.addUrls, in order
    rendered,            \* documents rendered by the manager, in order
    writes,              \* attempted writes and their outcome, in order
    wi                   \* index of the next resource document to write

vars == <<opts, env, pluginOptions, defaultOptions, invocations, pc, err, errAt, qi, currentPage, pending, outstanding, reqLog, respLog,
          responsesObject, delayed, defaultQueryRecords, queryRecords,
          serializerCalls, siteURL, fed, rendered, writes, wi>>

Keys == {"allGhostPost", "allGhostPage"}

EmptyMap == [k \in {} |-> Undefined]

\* DEFAULTMAPPING of ./defaults
DEFAULTMAPPING == [k \in {"allSitePage"} |-> [sitemap |-> "pages", serializer |-> "none"]]

QueryKeys == [i \in 1..Len(opts.queries) |-> opts.queries[i].queryKey]

\* options.query is set (a string or a mapping of name -> query)
HasQuery == opts.queryKind # "none"

(* ------------------------- the query handler --------------------------- *)
\* r.data?.[queryKey] of the response to a request for one source.  A paged
\* request is answered with the page that starts at its skip; a request
\* without parameters with every record of the source.
SourceData(req) ==
    LET src == env.src[req.query]
        idx == (req.skip \div req.limit) + 1
    IN  IF src.shape = "missing" THEN Undefined
        ELSE IF src.shape = "noedges" THEN NoEdges
        ELSE IF ~req.paged THEN Data(Flatten(src.pages), FALSE)
        ELSE IF idx > Len(src.pages) THEN Data(<<>>, FALSE)
        ELSE Data(src.pages[idx], idx < Len(src.pages))

\* r.data of the default query: site and allSitePage.
DefaultData ==
    [k \in {"site", "allSitePage"} |->
        IF k = "site" THEN NoEdges ELSE Data(env.pages, FALSE)]

\* r.data of a custom query given as one string: every source at once.
CustomData ==
    [k \in {opts.queries[i].queryKey : i \in 1..Len(opts.queries)} |->
        SourceData(PlainRequest(k))]

Issue(req) ==
    /\ outstanding' = outstanding \cup {req}
    /\ reqLog' = Append(reqLog, req)
    /\ UNCHANGED respLog

\* The handler's promise settles: resolved with a response (and whether it
\* reports a next page) or rejected.
Settle(req, resolved, more) ==
    /\ req \in outstanding
    /\ outstanding' = outstanding \ {req}
    /\ respLog' = Append(respLog, [query |-> req.query, ok |-> resolved, hasNextPage |-> more])

\* onPostBuild rejects.
Fail(kind) ==
    /\ pc' = "failed"
    /\ err' = kind
    /\ errAt' = pc

NoFail == UNCHANGED <<err, errAt>>

(* ----------------------- onPostBuild: default query -------------------- *)
\* Mutant: skipDefaultQuery alone decides, whether a query is set or not.
RunsDefaultQueryUnlessSkipped == ~opts.skipDefaultQuery

\* if (!(options.skipDefaultQuery && options.query))
RunsDefaultQuery == ~(opts.skipDefaultQuery /\ HasQuery)

RunDefaultQuery ==
    /\ pc = "start"
    /\ RunsDefaultQuery
    /\ Issue(PlainRequest("default"))
    /\ pc' = "awaitDefault"
    /\ NoFail
    /\ UNCHANGED <<opts, env, pluginOptions, defaultOptions, invocations, qi, currentPage, pending, responsesObject, delayed,
                   defaultQueryRecords, queryRecords, serializerCalls, siteURL,
                   fed, rendered, writes, wi>>

SkipDefaultQuery ==
    /\ pc = "start"
    /\ ~RunsDefaultQuery
    /\ pc' = "custom"
    /\ NoFail
    /\ UNCHANGED <<opts, env, pluginOptions, defaultOptions, invocations, qi, currentPage, pending, outstanding, reqLog, respLog,
                   responsesObject, delayed, defaultQueryRecords, queryRecords,
                   serializerCalls, siteURL, fed, rendered, writes, wi>>

\* runQuery(graphql, activity, {query: DEFAULTQUERY, exclude}): no mapping.
DefaultQueryResponse ==
    /\ pc = "awaitDefault"
    /\ Settle(PlainRequest("default"), TRUE, FALSE)
    /\ LET r == ProcessSources([sources |-> DefaultData, calls |-> serializerCalls, err |-> "none"],
                               <<"site", "allSitePage">>, FALSE, EmptyMap, opts.exclude)
       IN  /\ serializerCalls' = r.calls
           /\ IF r.err # "none"
              THEN Fail(r.err) /\ UNCHANGED defaultQueryRecords
              ELSE /\ pc' = "custom"
                   /\ NoFail
                   /\ defaultQueryRecords' = [ran |-> TRUE, siteUrl |-> env.siteUrl,
                                              allSitePage |-> r.sources["allSitePage"]]
    /\ UNCHANGED <<opts, env, pluginOptions, defaultOptions, invocations, qi, currentPage, pending, reqLog, responsesObject,
                   delayed, queryRecords, siteURL, fed, rendered, writes, wi>>

DefaultQueryError ==
    /\ pc = "awaitDefault"
    /\ Settle(PlainRequest("default"), FALSE, FALSE)
    /\ Fail("defaultQuery")
    /\ UNCHANGED <<opts, env, pluginOptions, defaultOptions, invocations, qi, currentPage, pending, reqLog, responsesObject,
                   delayed, defaultQueryRecords, queryRecords, serializerCalls,
                   siteURL, fed, rendered, writes, wi>>

(* ----------------------- onPostBuild: custom query --------------------- *)
\* merge(defaultOptions, pluginOptions) returns defaultOptions itself: with
\* addUncaughtPages, options and defaultOptions are one object.
OptionsAreDefaults == pluginOptions.addUncaughtPages

\* if (!options.query || !options.mapping) options.mapping = options.mapping || DEFAULTMAPPING
NoCustomQuery ==
    /\ pc = "custom"
    /\ ~HasQuery \/ ~opts.hasMapping
    /\ opts' = IF opts.hasMapping THEN opts
               ELSE [opts EXCEPT !.hasMapping = TRUE, !.mapping = DEFAULTMAPPING]
    /\ defaultOptions' = IF OptionsAreDefaults THEN opts' ELSE defaultOptions
    /\ pc' = "serialize"
    /\ NoFail
    /\ UNCHANGED <<env, pluginOptions, invocations, qi, currentPage, pending, outstanding, reqLog, respLog,
                   responsesObject, delayed, defaultQueryRecords, queryRecords,
                   serializerCalls, siteURL, fed, rendered, writes, wi>>

\* runQuery with a query string: sources = await handler(query).then(r => r.data)
RunCustomQuery ==
    /\ pc = "custom"
    /\ opts.queryKind = "string" /\ opts.hasMapping
    /\ Issue(PlainRequest("custom"))
    /\ pc' = "awaitCustom"
    /\ NoFail
    /\ UNCHANGED <<opts, env, pluginOptions, defaultOptions, invocations, qi, currentPage, pending, responsesObject, delayed,
                   defaultQueryRecords, queryRecords, serializerCalls, siteURL,
                   fed, rendered, writes, wi>>

\* The rest of runQuery once sources is known (lines 178-245), then the
\* return into onPostBuild.
FinishRunQuery(sources) ==
    LET r == ProcessSources([sources |-> sources, calls |-> serializerCalls, err |-> "none"],
                            QueryKeys, opts.hasMapping, opts.mapping, opts.exclude)
    IN  /\ serializerCalls' = r.calls
        /\ IF r.err # "none"
           THEN Fail(r.err) /\ UNCHANGED queryRecords
           ELSE /\ pc' = "serialize"
                /\ NoFail
                /\ queryRecords' = [ran |-> TRUE, sources |-> r.sources]

CustomQueryResponse ==
    /\ pc = "awaitCustom"
    /\ Settle(PlainRequest("custom"), TRUE, FALSE)
    /\ FinishRunQuery(CustomData)
    /\ UNCHANGED <<opts, env, pluginOptions, defaultOptions, invocations, qi, currentPage, pending, reqLog, responsesObject,
                   delayed, defaultQueryRecords, siteURL, fed, rendered, writes, wi>>

CustomQueryError ==
    /\ pc = "awaitCustom"
    /\ Settle(PlainRequest("custom"), FALSE, FALSE)
    /\ Fail("customQuery")
    /\ UNCHANGED <<opts, env, pluginOptions, defaultOptions, invocations, qi, currentPage, pending, reqLog, responsesObject,
                   delayed, defaultQueryRecords, queryRecords, serializerCalls,
                   siteURL, fed, rendered, writes, wi>>


(* ----------------------- runQueriesSequentially ------------------------ *)
RunQueriesSequentially ==
    /\ pc = "custom"
    /\ opts.queryKind = "object" /\ opts.hasMapping
    /\ qi' = 1
    /\ responsesObject' = EmptyMap
    /\ pc' = "loop"
    /\ NoFail
    /\ UNCHANGED <<opts, env, pluginOptions, defaultOptions, invocations, currentPage, pending, outstanding, reqLog, respLog,
                   delayed, defaultQueryRecords, queryRecords, serializerCalls,
                   siteURL, fed, rendered, writes, wi>>

item == opts.queries[qi]

\* The query string has hasNextPage, $limit:, $skip:, limit: $limit and
\* skip: $skip: splitQueryInSmallerBatches runs, and fetchPages() issues
\* the first page request.
StartPagedQuery ==
    /\ pc = "loop"
    /\ qi <= Len(opts.queries)
    /\ item.paged
    /\ currentPage' = 0
    /\ pending' = <<>>
    /\ Issue(PageRequest(item.queryKey, ItemsPerPage(opts.splitQueryPageSize), 0))
    /\ pc' = "awaitPage"
    /\ NoFail
    /\ UNCHANGED <<opts, env, pluginOptions, defaultOptions, invocations, qi, responsesObject, delayed, defaultQueryRecords,
                   queryRecords, serializerCalls, siteURL, fed, rendered, writes, wi>>

StartSingleQuery ==
    /\ pc = "loop"
    /\ qi <= Len(opts.queries)
    /\ ~item.paged
    /\ Issue(PlainRequest(item.queryKey))
    /\ pc' = "awaitSingle"
    /\ NoFail
    /\ UNCHANGED <<opts, env, pluginOptions, defaultOptions, invocations, qi, currentPage, pending, responsesObject, delayed,
                   defaultQueryRecords, queryRecords, serializerCalls, siteURL,
                   fed, rendered, writes, wi>>

\* Mutant: the result is stored and the loop moves on without the delay.
StoreResponseNoDelay(data) ==
    /\ responsesObject' = [k \in DOMAIN responsesObject \cup {item.queryKey} |->
                              IF k = item.queryKey THEN data ELSE responsesObject[k]]
    /\ pc' = "loop"
    /\ qi' = qi + 1
    /\ UNCHANGED delayed

\* responsesObject[item.queryKey] = <result>; the loop then waits 1 second.
StoreResponse(data) ==
    /\ responsesObject' = [k \in DOMAIN responsesObject \cup {item.queryKey} |->
                              IF k = item.queryKey THEN data ELSE responsesObject[k]]
    /\ pc' = "delay"
    /\ UNCHANGED <<qi, delayed>>

\* The request of the current fetchPages call, as logged last.
LastRequest == reqLog[Len(reqLog)]

\* A page arrives.  With hasNextPage the next fetchPages call is made;
\* without, the nested calls return and the merged data is stored.
PageResponse ==
    /\ pc = "awaitPage"
    /\ LET tempData == SourceData(LastRequest)
       IN  /\ respLog' = Append(respLog, [query |-> item.queryKey, ok |-> TRUE,
                                          hasNextPage |-> WantsNextPage(tempData)])
           /\ IF WantsNextPage(tempData)
              THEN /\ currentPage' = currentPage + 1
                   /\ pending' = Append(pending, tempData)
                   /\ LET req == PageRequest(item.queryKey,
                                             ItemsPerPage(opts.splitQueryPageSize),
                                             currentPage + 1)
                      IN  /\ outstanding' = (outstanding \ {LastRequest}) \cup {req}
                          /\ reqLog' = Append(reqLog, req)
                   /\ pc' = "awaitPage"
                   /\ UNCHANGED <<qi, delayed, responsesObject>>
              ELSE /\ StoreResponse(Unwind(pending, tempData))
                   /\ pending' = <<>>
                   /\ outstanding' = outstanding \ {LastRequest}
                   /\ UNCHANGED <<currentPage, reqLog>>
    /\ NoFail
    /\ UNCHANGED <<opts, env, pluginOptions, defaultOptions, invocations, defaultQueryRecords, queryRecords, serializerCalls,
                   siteURL, fed, rendered, writes, wi>>

\* Mutant: the fallback request still carries pagination parameters.
FallbackRequestPaged(queryKey) == PagedRequest(queryKey, DefaultPageSize, 0)

\* The request of the catch block: handler(queryString), no parameters.
FallbackRequest(queryKey) == PlainRequest(queryKey)

\* A page request fails: every pending fetchPages call rejects, and the
\* catch block of splitQueryInSmallerBatches issues the fallback request.
PageError ==
    /\ pc = "awaitPage"
    /\ respLog' = Append(respLog, [query |-> item.queryKey, ok |-> FALSE, hasNextPage |-> FALSE])
    /\ pending' = <<>>
    /\ outstanding' = (outstanding \ {LastRequest}) \cup {FallbackRequest(item.queryKey)}
    /\ reqLog' = Append(reqLog, FallbackRequest(item.queryKey))
    /\ pc' = "awaitFallback"
    /\ NoFail
    /\ UNCHANGED <<opts, env, pluginOptions, defaultOptions, invocations, qi, currentPage, responsesObject, delayed,
                   defaultQueryRecords, queryRecords, serializerCalls, siteURL,
                   fed, rendered, writes, wi>>

FallbackResponse ==
    /\ pc = "awaitFallback"
    /\ Settle(LastRequest, TRUE, FALSE)
    /\ StoreResponse(SourceData(LastRequest))
    /\ NoFail
    /\ UNCHANGED <<opts, env, pluginOptions, defaultOptions, invocations, currentPage, pending, reqLog, defaultQueryRecords,
                   queryRecords, serializerCalls, siteURL, fed, rendered, writes, wi>>

\* The fallback fails: runQueriesSequentially rethrows, runQuery rejects and
\* onPostBuild throws "Something went wrong running custom query".
FallbackError ==
    /\ pc = "awaitFallback"
    /\ Settle(LastRequest, FALSE, FALSE)
    /\ Fail("customQuery")
    /\ UNCHANGED <<opts, env, pluginOptions, defaultOptions, invocations, qi, currentPage, pending, reqLog, responsesObject,
                   delayed, defaultQueryRecords, queryRecords, serializerCalls,
                   siteURL, fed, rendered, writes, wi>>

SingleResponse ==
    /\ pc = "awaitSingle"
    /\ Settle(LastRequest, TRUE, FALSE)
    /\ StoreResponse(SourceData(LastRequest))
    /\ NoFail
    /\ UNCHANGED <<opts, env, pluginOptions, defaultOptions, invocations, currentPage, pending, reqLog, defaultQueryRecords,
                   queryRecords, serializerCalls, siteURL, fed, rendered, writes, wi>>

\* Mutant: a failed single request leaves its source undefined and the loop
\* goes on with the next query.
SingleErrorSkipsSource ==
    /\ pc = "awaitSingle"
    /\ Settle(LastRequest, FALSE, FALSE)
    /\ StoreResponse(Undefined)
    /\ NoFail
    /\ UNCHANGED <<opts, env, pluginOptions, defaultOptions, invocations, currentPage, pending, reqLog, defaultQueryRecords,
                   queryRecords, serializerCalls, siteURL, fed, rendered, writes, wi>>

\* The single request fails: runQueriesSequentially rethrows, runQuery
\* rejects and onPostBuild throws.
SingleError ==
    /\ pc = "awaitSingle"
    /\ Settle(LastRequest, FALSE, FALSE)
    /\ Fail("customQuery")
    /\ UNCHANGED <<opts, env, pluginOptions, defaultOptions, invocations, qi, currentPage, pending, reqLog, responsesObject,
                   delayed, defaultQueryRecords, queryRecords, serializerCalls,
                   siteURL, fed, rendered, writes, wi>>

\* await new Promise((r) => setTimeout(r, 1000)), then the next item.
Delay ==
    /\ pc = "delay"
    /\ delayed' = delayed \cup {item.queryKey}
    /\ qi' = qi + 1
    /\ pc' = "loop"
    /\ NoFail
    /\ UNCHANGED <<opts, env, pluginOptions, defaultOptions, invocations, currentPage, pending, outstanding, reqLog, respLog,
                   responsesObject, defaultQueryRecords, queryRecords,
                   serializerCalls, siteURL, fed, rendered, writes, wi>>

\* The loop is over: return responsesObject, and runQuery goes on with it.
QueriesDone ==
    /\ pc = "loop"
    /\ qi > Len(opts.queries)
    /\ FinishRunQuery(responsesObject)
    /\ UNCHANGED <<opts, env, pluginOptions, defaultOptions, invocations, qi, currentPage, pending, outstanding, reqLog, respLog,
                   responsesObject, delayed, defaultQueryRecords, siteURL, fed,
                   rendered, writes, wi>>


(* ------------------------------ serialize ------------------------------ *)
\* skipDefaultQuery && query
SkipsDefaultRecords == opts.skipDefaultQuery /\ HasQuery

\* { url: new URL(node.path, siteURL).toString(), node } with node.path = node.slug
Entry(node, site) == [url |-> <<site, node.slug>>, node |-> node]

Entries(edges, site) == [i \in 1..Len(edges) |-> Entry(edges[i], site)]

Calls(bucket, entries) == [i \in 1..Len(entries) |-> [bucket |-> bucket, entry |-> entries[i]]]

\* mapping?.[type]?.sitemap
MapsToSitemap(type) == opts.hasMapping /\ type \in DOMAIN opts.mapping

\* for (let type in sources): acc.sourceObject is sourceObject, acc.fed the
\* manager.addUrls calls made.
RECURSIVE FeedSources(_, _, _, _)
FeedSources(acc, keys, sources, site) ==
    IF keys = <<>> THEN acc
    ELSE LET type == Head(keys)
             currentSource == sources[type]
             feeds == MapsToSitemap(type) /\ currentSource.defined /\ currentSource.hasEdges
             sitemapType == opts.mapping[type].sitemap
             es == Entries(currentSource.edges, site)
             old == IF sitemapType \in DOMAIN acc.sourceObject
                    THEN acc.sourceObject[sitemapType] ELSE <<>>
             next == IF ~feeds THEN acc
                     ELSE [sourceObject |->
                              [b \in DOMAIN acc.sourceObject \cup {sitemapType} |->
                                  IF b = sitemapType THEN old \o es ELSE acc.sourceObject[b]],
                           fed |-> acc.fed \o Calls(sitemapType, es)]
         IN  FeedSources(next, Tail(keys), sources, site)

\* addPageNodes of ./serializers: the pages of allSitePage whose url is the
\* path of no entry of sourceObject.
AddPageNodes(sourceObject, pageEdges, site) ==
    LET used(n) == \E b \in DOMAIN sourceObject :
                       \E i \in 1..Len(sourceObject[b]) : sourceObject[b][i].node.slug = n.slug
    IN  Entries(SelectSeq(pageEdges, LAMBDA n : ~used(n)), site)

\* lodash uniqBy(list, "url"): the first entry of every url.
RECURSIVE UniqByUrl(_, _)
UniqByUrl(list, seen) ==
    IF list = <<>> THEN <<>>
    ELSE IF Head(list).url \in seen THEN UniqByUrl(Tail(list), seen)
    ELSE <<Head(list)>> \o UniqByUrl(Tail(list), seen \cup {Head(list).url})

\* Mutant: a missing site URL falls back to a local address.
ResolveSiteUrlWithFallback ==
    IF opts.siteUrl # "" THEN opts.siteUrl
    ELSE IF SkipsDefaultRecords \/ defaultQueryRecords.siteUrl = "" THEN "http://localhost"
    ELSE defaultQueryRecords.siteUrl

\* overrideSiteUrl ?? site?.siteMetadata.siteUrl ("" : none)
ResolveSiteUrl ==
    IF opts.siteUrl # "" THEN opts.siteUrl
    ELSE IF SkipsDefaultRecords THEN ""
    ELSE defaultQueryRecords.siteUrl

\* serialize(queryRecords, defaultQueryRecords, options, manager), and the
\* assignment options.siteUrl = siteURL that follows it.
Serialize ==
    /\ pc = "serialize"
    /\ siteURL' = ResolveSiteUrl
    /\ IF siteURL' = ""
       THEN Fail("siteUrl") /\ UNCHANGED <<fed, opts, defaultOptions>>
       ELSE LET sources == IF queryRecords.ran THEN queryRecords.sources ELSE EmptyMap
                keys == IF queryRecords.ran THEN QueryKeys ELSE <<>>
                a == FeedSources([sourceObject |-> EmptyMap, fed |-> <<>>], keys, sources, siteURL')
                hasPages == ~SkipsDefaultRecords /\ defaultQueryRecords.allSitePage.hasEdges
                pageNodes == IF hasPages /\ opts.addUncaughtPages
                             THEN AddPageNodes(a.sourceObject, defaultQueryRecords.allSitePage.edges, siteURL')
                             ELSE <<>>
                own == IF "pages" \in DOMAIN a.sourceObject THEN a.sourceObject["pages"] ELSE <<>>
                pages == UniqByUrl(own \o pageNodes, {})
            IN  /\ fed' = a.fed \o Calls("pages", pages)
                /\ opts' = [opts EXCEPT !.siteUrl = siteURL']
                /\ defaultOptions' = IF OptionsAreDefaults THEN opts' ELSE defaultOptions
                /\ pc' = "copyStylesheet"
                /\ NoFail
    /\ UNCHANGED <<env, pluginOptions, invocations, qi, currentPage, pending, outstanding, reqLog, respLog,
                   responsesObject, delayed, defaultQueryRecords, queryRecords,
                   serializerCalls, rendered, writes, wi>>

(* ----------------------- stylesheet, render, write --------------------- *)
\* Mutant: the stylesheet is copied as the first step of onPostBuild.
CopyStylesheetFirst ==
    /\ pc = "start"
    /\ writes = <<>>
    /\ writes' = Append(writes, [file |-> "sitemap.xsl", ok |-> TRUE])
    /\ UNCHANGED <<opts, env, pluginOptions, defaultOptions, invocations, pc, err, errAt, qi, currentPage, pending,
                   outstanding, reqLog, respLog, responsesObject, delayed,
                   defaultQueryRecords, queryRecords, serializerCalls, siteURL,
                   fed, rendered, wi>>

\* copyStylesheet: the stylesheet is read and written to sitemap.xsl.
CopyStylesheet ==
    /\ pc = "copyStylesheet"
    /\ writes' = Append(writes, [file |-> "sitemap.xsl", ok |-> TRUE])
    /\ pc' = "render"
    /\ NoFail
    /\ UNCHANGED <<opts, env, pluginOptions, defaultOptions, invocations, qi, currentPage, pending, outstanding, reqLog, respLog,
                   responsesObject, delayed, defaultQueryRecords, queryRecords,
                   serializerCalls, siteURL, fed, rendered, wi>>

\* utils.writeFile rejects inside copyStylesheet: nothing catches it.
CopyStylesheetError ==
    /\ pc = "copyStylesheet"
    /\ writes' = Append(writes, [file |-> "sitemap.xsl", ok |-> FALSE])
    /\ Fail("stylesheet")
    /\ UNCHANGED <<opts, env, pluginOptions, defaultOptions, invocations, qi, currentPage, pending, outstanding, reqLog, respLog,
                   responsesObject, delayed, defaultQueryRecords, queryRecords,
                   serializerCalls, siteURL, fed, rendered, wi>>

\* The order of the keys of a mapping object.
KeyOrder == <<"allGhostPost", "allGhostPage", "allSitePage">>

\* serializeSources of ./serializers: one source type per sitemap name of
\* the mapping, in the order of the mapping.
RECURSIVE SitemapNames(_, _)
SitemapNames(keys, seen) ==
    IF keys = <<>> THEN <<>>
    ELSE IF Head(keys) \in DOMAIN opts.mapping /\ opts.mapping[Head(keys)].sitemap \notin seen
    THEN <<opts.mapping[Head(keys)].sitemap>>
             \o SitemapNames(Tail(keys), seen \cup {opts.mapping[Head(keys)].sitemap})
    ELSE SitemapNames(Tail(keys), seen)

SerializeSources == SitemapNames(KeyOrder, {})

\* manager.getSiteMapXml for every source type, then manager.getIndexXml.
Render ==
    /\ pc = "render"
    /\ rendered' = rendered \o SerializeSources \o <<"index">>
    /\ pc' = "writeIndex"
    /\ NoFail
    /\ UNCHANGED <<opts, env, pluginOptions, defaultOptions, invocations, qi, currentPage, pending, outstanding, reqLog, respLog,
                   responsesObject, delayed, defaultQueryRecords, queryRecords,
                   serializerCalls, siteURL, fed, writes, wi>>

\* resourcesSiteMapsArray: the rendered documents but the index.
ResourceDocs == SelectSeq(rendered, LAMBDA d : d # "index")

\* Mutant: a failed write is rethrown.
FatalWrite(file, ok, next) ==
    /\ writes' = Append(writes, [file |-> file, ok |-> ok])
    /\ IF ok THEN pc' = next /\ NoFail ELSE Fail("write")

\* try { await utils.outputFile(file, xml) } catch (err) { console.error(err) }:
\* the write is attempted, a failure is logged, and onPostBuild goes on.
LoggedWrite(file, ok, next) ==
    /\ writes' = Append(writes, [file |-> file, ok |-> ok])
    /\ pc' = next
    /\ NoFail

WriteIndex ==
    /\ pc = "writeIndex"
    /\ \E ok \in BOOLEAN : LoggedWrite("index", ok, "writeResources")
    /\ wi' = 1
    /\ UNCHANGED <<opts, env, pluginOptions, defaultOptions, invocations, qi, currentPage, pending, outstanding, reqLog, respLog,
                   responsesObject, delayed, defaultQueryRecords, queryRecords,
                   serializerCalls, siteURL, fed, rendered>>

\* for (let sitemap of resourcesSiteMapsArray): one write, its failure logged.
WriteResource ==
    /\ pc = "writeResources"
    /\ wi <= Len(ResourceDocs)
    /\ \E ok \in BOOLEAN : LoggedWrite(ResourceDocs[wi], ok, "writeResources")
    /\ wi' = wi + 1
    /\ UNCHANGED <<opts, env, pluginOptions, defaultOptions, invocations, qi, currentPage, pending, outstanding, reqLog, respLog,
                   responsesObject, delayed, defaultQueryRecords, queryRecords,
                   serializerCalls, siteURL, fed, rendered>>

\* activity.end(); return
End ==
    /\ pc = "writeResources"
    /\ wi > Len(ResourceDocs)
    /\ pc' = "done"
    /\ NoFail
    /\ UNCHANGED <<opts, env, pluginOptions, defaultOptions, invocations, qi, currentPage, pending, outstanding, reqLog, respLog,
                   responsesObject, delayed, defaultQueryRecords, queryRecords,
                   serializerCalls, siteURL, fed, rendered, writes, wi>>

Next ==
    \/ RunDefaultQuery \/ SkipDefaultQuery \/ DefaultQueryResponse \/ DefaultQueryError
    \/ NoCustomQuery \/ RunCustomQuery \/ CustomQueryResponse \/ CustomQueryError
    \/ RunQueriesSequentially \/ StartPagedQuery \/ StartSingleQuery
    \/ PageResponse \/ PageError \/ FallbackResponse \/ FallbackError
    \/ SingleResponse \/ SingleError \/ Delay \/ QueriesDone
    \/ Serialize \/ CopyStylesheet \/ CopyStylesheetError
    \/ Render \/ WriteIndex \/ WriteResource \/ End


(* --------------------- plugin options and data sources ----------------- *)
\* The records whose slug starts with the character c, as an edge list.
EdgesFrom(c) == SetToSeq({n \in Nodes : Head(n.slug) = c})

AllNodes == EdgesFrom("/") \o EdgesFrom("a")

\* The pages of a paged source, given the record count of every page: the
\* records of the source, cut into consecutive pages of these sizes.
RECURSIVE PagesOf(_, _)
PagesOf(sizes, offset) ==
    IF sizes = <<>> THEN <<>>
    ELSE <<SubSeq(AllNodes, offset + 1, offset + Head(sizes))>>
             \o PagesOf(Tail(sizes), offset + Head(sizes))

PageSizes == SeqsFromTo(0..MaxPerPage, 1, MaxPages)

Source(shape, pages) == [shape |-> shape, pages |-> pages]

Query(queryKey, paged) == [queryKey |-> queryKey, paged |-> paged]

Mapping(ser) ==
    [k \in Keys |-> [sitemap |-> IF k = "allGhostPost" THEN "posts" ELSE "pages",
                     serializer |-> IF k = "allGhostPost" THEN ser ELSE "none"]]

BaseOpts ==
    [siteUrl |-> "https://config", skipDefaultQuery |-> TRUE, queryKind |-> "object",
     queries |-> <<Query("allGhostPost", TRUE)>>, hasMapping |-> TRUE,
     mapping |-> Mapping("none"), exclude |-> <<>>, addUncaughtPages |-> FALSE,
     splitQueryPageSize |-> 2]

BaseEnv ==
    [src |-> [k \in Keys |-> Source("ok", <<SubSeq(AllNodes, 1, 1)>>)],
     siteUrl |-> "https://metadata",
     pages |-> SubSeq(AllNodes, 1, 2)]

\* Paged queries over sources of every page count and page sizes.
PagingScenarios ==
    {[opts |-> [BaseOpts EXCEPT !.queries = qs, !.splitQueryPageSize = ps],
      env |-> [BaseEnv EXCEPT !.src["allGhostPost"] = Source("ok", PagesOf(sizes, 0))]] :
        qs \in {<<Query("allGhostPost", TRUE)>>,
                <<Query("allGhostPost", TRUE), Query("allGhostPage", FALSE)>>},
        ps \in {0, 2},
        sizes \in PageSizes}

Rules ==
    {StringRule(p) : p \in Slugs}
        \cup {RegexRule(<<"a">>, TRUE), RegexRule(<<"/">>, FALSE)}
        \cup {FunctionRule, InvalidRule}

RuleLists == {<<>>} \cup {<<r>> : r \in Rules} \cup {<<r1, r2>> : r1, r2 \in Rules}

\* Two sources holding every record between them, under every exclusion
\* list.
ExclusionScenarios ==
    {[opts |-> [BaseOpts EXCEPT !.queries = <<Query("allGhostPost", FALSE),
                                              Query("allGhostPage", FALSE)>>,
                                !.exclude = ex],
      env |-> [BaseEnv EXCEPT !.src["allGhostPost"] = Source("ok", <<EdgesFrom("/")>>),
                              !.src["allGhostPage"] = Source("ok", <<EdgesFrom("a")>>)]] :
        ex \in RuleLists}

\* Two records of a source, the first one flagged for the predicate rule.
ConfigEdges ==
    <<[slug |-> <<"a">>, flag |-> TRUE], [slug |-> <<"/", "a">>, flag |-> FALSE]>>

\* The option combinations of onPostBuild over small sources.
ConfigScenarios ==
    {[opts |-> [BaseOpts EXCEPT !.siteUrl = su, !.skipDefaultQuery = sk,
                                !.queryKind = qk, !.hasMapping = hm,
                                !.queries = <<Query("allGhostPost", TRUE),
                                              Query("allGhostPage", FALSE)>>,
                                !.mapping = IF hm THEN Mapping(ser) ELSE EmptyMap,
                                !.exclude = ex, !.addUncaughtPages = up],
      env |-> [BaseEnv EXCEPT !.siteUrl = ms,
                              !.src["allGhostPost"] = Source(sh, <<ConfigEdges>>)]] :
        su \in {"", "https://config"}, sk \in BOOLEAN,
        qk \in {"none", "string", "object"}, hm \in BOOLEAN,
        ser \in Serializers, ex \in {<<>>, <<InvalidRule>>, <<FunctionRule>>},
        up \in BOOLEAN,
        ms \in {"", "https://metadata"}, sh \in {"ok", "missing", "noedges"}}

Scenarios == PagingScenarios \cup ExclusionScenarios \cup ConfigScenarios

\* defaultOptions of ./defaults as the module is loaded: none of the
\* options of the model has a default (its own keys, output, exclude and
\* createLinkInHead, decide nothing here: its exclude list names no record).
PristineDefaultOptions ==
    [siteUrl |-> "", skipDefaultQuery |-> FALSE, queryKind |-> "none",
     queries |-> <<>>, hasMapping |-> FALSE, mapping |-> EmptyMap,
     exclude |-> <<>>, addUncaughtPages |-> FALSE, splitQueryPageSize |-> 0]

\* Object.assign({}, defaultOptions, pluginOptions): every option the
\* pluginOptions name replaces the default as a whole.
AssignOptions(defaults, po) ==
    [siteUrl |-> IF po.siteUrl # "" THEN po.siteUrl ELSE defaults.siteUrl,
     skipDefaultQuery |-> po.skipDefaultQuery \/ defaults.skipDefaultQuery,
     queryKind |-> IF po.queryKind # "none" THEN po.queryKind ELSE defaults.queryKind,
     queries |-> IF po.queryKind # "none" THEN po.queries ELSE defaults.queries,
     hasMapping |-> po.hasMapping \/ defaults.hasMapping,
     mapping |-> IF po.hasMapping THEN po.mapping ELSE defaults.mapping,
     exclude |-> IF po.exclude # <<>> THEN po.exclude ELSE defaults.exclude,
     addUncaughtPages |-> po.addUncaughtPages \/ defaults.addUncaughtPages,
     splitQueryPageSize |-> IF po.splitQueryPageSize # 0 THEN po.splitQueryPageSize
                            ELSE defaults.splitQueryPageSize]

\* lodash merge of two query objects: the keys of the destination keep
\* their place and take the source's query, new keys are appended.
MergeQueries(dq, pq) ==
    LET inP(k) == \E j \in 1..Len(pq) : pq[j].queryKey = k
        inD(k) == \E j \in 1..Len(dq) : dq[j].queryKey = k
        ofP(k) == pq[CHOOSE j \in 1..Len(pq) : pq[j].queryKey = k]
    IN  [i \in 1..Len(dq) |-> IF inP(dq[i].queryKey) THEN ofP(dq[i].queryKey) ELSE dq[i]]
            \o SelectSeq(pq, LAMBDA q : ~inD(q.queryKey))

\* lodash merge of two mapping objects, key by key and field by field.
MergeMapping(dm, pm) ==
    [k \in DOMAIN dm \cup DOMAIN pm |->
        IF k \notin DOMAIN pm THEN dm[k]
        ELSE IF k \notin DOMAIN dm THEN pm[k]
        ELSE [sitemap |-> pm[k].sitemap,
              serializer |-> IF pm[k].serializer # "none" THEN pm[k].serializer
                             ELSE dm[k].serializer]]

\* lodash merge of two arrays, index by index.
MergeExclude(de, pe) ==
    [i \in 1..(IF Len(de) > Len(pe) THEN Len(de) ELSE Len(pe)) |->
        IF i <= Len(pe) THEN pe[i] ELSE de[i]]

\* merge(defaultOptions, pluginOptions): the pluginOptions are merged, deep,
\* into defaultOptions itself.
MergeOptions(defaults, po) ==
    LET a == AssignOptions(defaults, po)
    IN  [a EXCEPT
           !.queries = IF po.queryKind = "object" /\ defaults.queryKind = "object"
                       THEN MergeQueries(defaults.queries, po.queries) ELSE a.queries,
           !.mapping = IF po.hasMapping /\ defaults.hasMapping
                       THEN MergeMapping(defaults.mapping, po.mapping) ELSE a.mapping,
           !.exclude = MergeExclude(defaults.exclude, po.exclude)]

\* const options = pluginOptions.addUncaughtPages ? merge(...) : Object.assign(...)
Options(defaults, po) ==
    IF po.addUncaughtPages THEN MergeOptions(defaults, po) ELSE AssignOptions(defaults, po)

\* onPostBuild is entered with pluginOptions po: the options are built, and
\* with addUncaughtPages defaultOptions is the object that holds them.
Enter(defaults, po) ==
    /\ pluginOptions' = po
    /\ opts' = Options(defaults, po)
    /\ defaultOptions' = IF po.addUncaughtPages THEN opts' ELSE defaults

Init ==
    /\ \E sc \in Scenarios :
          /\ pluginOptions = sc.opts
          /\ opts = Options(PristineDefaultOptions, sc.opts)
          /\ defaultOptions = IF sc.opts.addUncaughtPages THEN opts ELSE PristineDefaultOptions
          /\ env = sc.env
    /\ invocations = 1
    /\ pc = "start"
    /\ err = "none"
    /\ errAt = "none"
    /\ qi = 0
    /\ currentPage = 0
    /\ pending = <<>>
    /\ outstanding = {}
    /\ reqLog = <<>>
    /\ respLog = <<>>
    /\ responsesObject = EmptyMap
    /\ delayed = {}
    /\ defaultQueryRecords = [ran |-> FALSE, siteUrl |-> "", allSitePage |-> Undefined]
    /\ queryRecords = [ran |-> FALSE, sources |-> EmptyMap]
    /\ serializerCalls = <<>>
    /\ siteURL = ""
    /\ fed = <<>>
    /\ rendered = <<>>
    /\ writes = <<>>
    /\ wi = 0

Spec == Init /\ [][Next]_vars

(* ------------------------ repeated invocations ------------------------- *)
\* The pluginOptions of a later invocation: nothing set, another site URL,
\* or a query object with a mapping and addUncaughtPages.
LaterOptions ==
    {PristineDefaultOptions,
     [PristineDefaultOptions EXCEPT !.siteUrl = "https://later"],
     [BaseOpts EXCEPT !.siteUrl = "", !.skipDefaultQuery = FALSE,
                      !.queries = <<Query("allGhostPage", FALSE)>>,
                      !.mapping = Mapping("reverse"), !.addUncaughtPages = TRUE,
                      !.splitQueryPageSize = 0]}

\* onPostBuild has returned or thrown, and is called again in the same
\* process: the module-level defaultOptions and siteURL are as it left them.
OnPostBuildAgain ==
    /\ pc \in {"done", "failed"}
    /\ invocations < MaxInvocations
    /\ invocations' = invocations + 1
    /\ \E po \in LaterOptions : Enter(defaultOptions, po)
    /\ pc' = "start"
    /\ err' = "none"
    /\ errAt' = "none"
    /\ qi' = 0
    /\ currentPage' = 0
    /\ pending' = <<>>
    /\ outstanding' = {}
    /\ reqLog' = <<>>
    /\ respLog' = <<>>
    /\ responsesObject' = EmptyMap
    /\ delayed' = {}
    /\ defaultQueryRecords' = [ran |-> FALSE, siteUrl |-> "", allSitePage |-> Undefined]
    /\ queryRecords' = [ran |-> FALSE, sources |-> EmptyMap]
    /\ serializerCalls' = <<>>
    /\ fed' = <<>>
    /\ rendered' = <<>>
    /\ writes' = <<>>
    /\ wi' = 0
    /\ UNCHANGED <<env, siteURL>>

NextRepeated == Next \/ OnPostBuildAgain

SpecRepeated == Init /\ [][NextRepeated]_vars


(* ------------------------- paged query execution ----------------------- *)
\* The requests of the log that carry pagination parameters, for one query.
PagedRequestsOf(queryKey) ==
    SelectSeq(reqLog, LAMBDA r : r.query = queryKey /\ r.paged)

\* Some request of the query was rejected.
HasFailed(queryKey) ==
    \E i \in 1..Len(respLog) : respLog[i].query = queryKey /\ ~respLog[i].ok

\* Position of a query in the mapping name -> query.
QueryIndex(queryKey) ==
    CHOOSE i \in 1..Len(opts.queries) : opts.queries[i].queryKey = queryKey

\* A paged run that met no error has left its result in responsesObject.
PagedRunCompleted(i) ==
    /\ opts.queryKind = "object"
    /\ opts.queries[i].paged
    /\ opts.queries[i].queryKey \in DOMAIN responsesObject
    /\ env.src[opts.queries[i].queryKey].shape = "ok"
    /\ ~HasFailed(opts.queries[i].queryKey)

\* C1: the edges of the result of a paged run are the concatenation, in page
\* order, of the edges of all pages of the source, which is what the single
\* unpaginated call returns.
C1_PagedResultIsConcatenation ==
    \A i \in 1..Len(opts.queries) :
        PagedRunCompleted(i) =>
            responsesObject[opts.queries[i].queryKey].edges
                = SourceData(PlainRequest(opts.queries[i].queryKey)).edges

\* The i-th request was a page request and it was rejected.
PagingErrorAt(i) == i <= Len(respLog) /\ reqLog[i].paged /\ ~respLog[i].ok

\* C2: an error on any page request is followed by exactly one request for
\* the same query without pagination parameters and by no further page
\* request; the stored result of the query is the fallback response alone;
\* the other queries still run and store their own responses; and a rejected
\* fallback fails onPostBuild with nothing written and no later request.
C2_FallbackOnPagingError ==
    /\ \A i \in 1..Len(reqLog) :
          PagingErrorAt(i) =>
             LET k == reqLog[i].query
             IN  /\ i < Len(reqLog)
                 /\ reqLog[i + 1] = PlainRequest(k)
                 /\ Cardinality({j \in 1..Len(reqLog) : reqLog[j] = PlainRequest(k)}) = 1
                 /\ \A j \in (i + 1)..Len(reqLog) : reqLog[j].query = k => ~reqLog[j].paged
                 /\ k \in DOMAIN responsesObject
                       => responsesObject[k] = SourceData(PlainRequest(k))
                 /\ \A k2 \in DOMAIN responsesObject \ {k} :
                       ~opts.queries[QueryIndex(k2)].paged
                           => responsesObject[k2] = SourceData(PlainRequest(k2))
                 /\ queryRecords.ran
                       => \A n \in 1..Len(opts.queries) :
                              opts.queries[n].queryKey \in DOMAIN responsesObject
                 /\ (i + 1 <= Len(respLog) /\ ~respLog[i + 1].ok)
                       => /\ pc = "failed" /\ err = "customQuery"
                          /\ Len(reqLog) = i + 1
                          /\ fed = <<>> /\ rendered = <<>> /\ writes = <<>>
    /\ \A i \in 1..Len(reqLog) :
          (~reqLog[i].paged /\ reqLog[i].query \in Keys /\ opts.queries[QueryIndex(reqLog[i].query)].paged)
              => i > 1 /\ PagingErrorAt(i - 1)

\* Witness of C2: the third page request of a query failed, the fallback
\* result was stored, and the build went on to the next query and ended.
C2_Witness ==
    /\ pc = "done"
    /\ Len(opts.queries) = 2
    /\ \E i \in 1..Len(respLog) :
          /\ PagingErrorAt(i)
          /\ reqLog[i].skip > reqLog[i].limit
          /\ Len(responsesObject[reqLog[i].query].edges) > 1

\* C3: at most one request is outstanding, and every request of a query of
\* the mapping is issued only after each earlier query has its result stored
\* and the delay after it has elapsed.
C3_StrictlySequential ==
    /\ Cardinality(outstanding) <= 1
    /\ Len(reqLog) = Len(respLog) + Cardinality(outstanding)
    /\ opts.queryKind = "object" =>
          \A i \in 1..Len(reqLog) :
              reqLog[i].query \in Keys =>
                  \A j \in 1..(QueryIndex(reqLog[i].query) - 1) :
                      /\ opts.queries[j].queryKey \in DOMAIN responsesObject
                      /\ opts.queries[j].queryKey \in delayed

\* Witness of C3: a request of the second query is outstanding after the
\* first query was run in pages.
C3_Witness ==
    /\ opts.queryKind = "object"
    /\ \E req \in outstanding : req.query \in Keys /\ QueryIndex(req.query) = 2
    /\ Len(PagedRequestsOf(opts.queries[1].queryKey)) > 1

\* C4: the n-th page request of a paged query has limit = pageSize and
\* skip = (n-1) * pageSize; a page request that is answered is followed by
\* another page request of the query exactly when the answer reports
\* hasNextPage; a query without the markers gets no page request; and a
\* run without errors over a source of p pages makes p requests.
C4_PageRequests ==
    opts.queryKind = "object" =>
        \A q \in 1..Len(opts.queries) :
            LET k == opts.queries[q].queryKey
                itemsPerPage == ItemsPerPage(opts.splitQueryPageSize)
                P == PagedRequestsOf(k)
            IN  /\ ~opts.queries[q].paged => P = <<>>
                /\ (opts.queries[q].paged /\ \E i \in 1..Len(reqLog) : reqLog[i].query = k)
                      => P # <<>> /\ (CHOOSE i \in 1..Len(reqLog) :
                                        reqLog[i].query = k /\ \A j \in 1..(i - 1) : reqLog[j].query # k)
                                     \in {i \in 1..Len(reqLog) : reqLog[i].paged}
                /\ \A n \in 1..Len(P) :
                      P[n] = [query |-> k, paged |-> TRUE, limit |-> itemsPerPage,
                              skip |-> (n - 1) * itemsPerPage]
                /\ \A i \in 1..Len(respLog) :
                      (reqLog[i].query = k /\ reqLog[i].paged /\ respLog[i].ok)
                          => (respLog[i].hasNextPage
                                <=> /\ i < Len(reqLog)
                                    /\ reqLog[i + 1].query = k
                                    /\ reqLog[i + 1].paged)
                /\ PagedRunCompleted(q) => Len(P) = Len(env.src[k].pages)

\* Witness of C4: a paged run of three pages with page size 2 has completed.
C4_Witness ==
    /\ PagedRunCompleted(1)
    /\ opts.splitQueryPageSize = 2
    /\ Len(PagedRequestsOf(opts.queries[1].queryKey)) = 3
    /\ pc = "delay"


(* ---------------------- rendering and file writes ---------------------- *)
OutputStarted == rendered # <<>> \/ writes # <<>>

\* options.query and options.mapping are both set: the custom query runs.
RunsCustomQuery == HasQuery /\ pluginOptions.hasMapping

\* Every query has completed and serialize has fed the manager.
QueriesAndFeedComplete ==
    /\ outstanding = {}
    /\ Len(respLog) = Len(reqLog)
    /\ RunsDefaultQuery => defaultQueryRecords.ran
    /\ RunsCustomQuery =>
          /\ queryRecords.ran
          /\ opts.queryKind = "object" =>
                \A i \in 1..Len(opts.queries) :
                    /\ opts.queries[i].queryKey \in DOMAIN responsesObject
                    /\ opts.queries[i].queryKey \in delayed
          /\ \A k \in DOMAIN queryRecords.sources :
                (k \in DOMAIN opts.mapping /\ queryRecords.sources[k].hasEdges) =>
                    \A i \in 1..Len(queryRecords.sources[k].edges) :
                        \E j \in 1..Len(fed) :
                            /\ fed[j].bucket = opts.mapping[k].sitemap
                            /\ fed[j].entry.node = queryRecords.sources[k].edges[i]
    /\ siteURL # ""
    /\ pc \in {"copyStylesheet", "render", "writeIndex", "writeResources", "done", "failed"}

\* The steps of onPostBuild that query or feed the manager.
QueryOrFeedStep ==
    \/ RunDefaultQuery \/ DefaultQueryResponse \/ DefaultQueryError
    \/ RunCustomQuery \/ CustomQueryResponse \/ CustomQueryError
    \/ RunQueriesSequentially \/ StartPagedQuery \/ StartSingleQuery
    \/ PageResponse \/ PageError \/ FallbackResponse \/ FallbackError
    \/ SingleResponse \/ SingleError \/ Delay \/ QueriesDone
    \/ Serialize

\* C5: nothing is rendered and no file is written before the default query
\* and every custom query have completed and serialize has fed every entry
\* to the manager; once output has started no step that queries or feeds
\* can be taken any more.
C5_NoOutputBeforeQueriesAndFeed ==
    OutputStarted => QueriesAndFeedComplete /\ ~ENABLED QueryOrFeedStep

\* Witness of C5: documents are rendered after the default query and two
\* sequential custom queries, with entries fed.
C5_Witness ==
    /\ rendered # <<>>
    /\ defaultQueryRecords.ran /\ queryRecords.ran
    /\ opts.queryKind = "object" /\ Len(opts.queries) = 2
    /\ Len(fed) > 1

\* The files of the attempted writes, in order.
AttemptedFiles == [i \in 1..Len(writes) |-> writes[i].file]

\* Some write of a sitemap document (index or resource) failed.
SitemapWriteFailed ==
    \E i \in 1..Len(writes) : writes[i].file # "sitemap.xsl" /\ ~writes[i].ok

\* C6: a failed write of the index or of a resource document does not fail
\* onPostBuild; the writes of the remaining documents are still attempted,
\* in order, and onPostBuild ends having attempted every document.
C6_WriteFailuresNotFatal ==
    /\ SitemapWriteFailed => pc # "failed" /\ err = "none"
    /\ pc = "writeResources" =>
          /\ AttemptedFiles = <<"sitemap.xsl", "index">> \o SubSeq(ResourceDocs, 1, wi - 1)
          /\ ENABLED (WriteResource \/ End)
    /\ pc = "writeIndex" => ENABLED WriteIndex
    /\ pc = "done" => AttemptedFiles = <<"sitemap.xsl", "index">> \o ResourceDocs

\* Witness of C6: onPostBuild has ended although the write of the index and
\* of both resource documents failed.
C6_Witness ==
    /\ pc = "done"
    /\ Len(ResourceDocs) = 2
    /\ \A i \in 2..Len(writes) : ~writes[i].ok

(* ------------------------- configuration errors ------------------------ *)
ConfigErrors == {"siteUrl", "serializer", "exclude"}

\* Positions inside runQuery (default or custom).
InRunQuery == {"awaitDefault", "awaitCustom", "loop"}

\* No siteUrl option, and none to be had from the site metadata.
NoSiteUrl ==
    /\ pluginOptions.siteUrl = ""
    /\ SkipsDefaultRecords \/ env.siteUrl = ""

RawSources == IF opts.queryKind = "object" THEN responsesObject ELSE CustomData

SerializerOf(k) ==
    IF k \in DOMAIN pluginOptions.mapping THEN pluginOptions.mapping[k].serializer ELSE "none"

\* The serializer of source k is invoked: one is configured and the fetched
\* source has an edges array.
SerializerApplies(k) ==
    /\ SerializerOf(k) # "none"
    /\ RawSources[k].defined /\ RawSources[k].hasEdges

\* The edge list the exclusion rules of runQuery are applied to.
InputEdges(k) ==
    IF SerializerApplies(k)
    THEN SerializerResult(SerializerOf(k), RawSources[k].edges)
    ELSE RawSources[k].edges

NoRuleMatches(exclude, node) ==
    \A i \in 1..Len(exclude) : RuleOutcome(exclude[i], node) # "match"

Orderings(n) == {f \in [1..n -> 1..n] : \A a, b \in 1..n : a # b => f[a] # f[b]}

Reorder(exclude, f) == [i \in 1..Len(exclude) |-> exclude[f[i]]]

\* The exclusion claims for one filtered list: kept from input under exclude.
ExclusionIsOr(input, kept, exclude) ==
    /\ kept = SelectSeq(input, LAMBDA n : NoRuleMatches(exclude, n))
    /\ \A f \in Orderings(Len(exclude)) :
          LET r == FilterEdges(input, Reorder(exclude, f))
          IN  ~r.err => r.edges = kept
    /\ (\E i \in 1..Len(exclude) : exclude[i] = FunctionRule) =>
          LET others == FilterEdges(input, SelectSeq(exclude, LAMBDA r : r # FunctionRule))
          IN  /\ \A i \in 1..Len(kept) : ~kept[i].flag
              /\ ~others.err => kept = SelectSeq(others.edges, LAMBDA n : ~n.flag)

\* C8: when the filtering of runQuery completes, the kept records of every
\* source are, in their order, exactly the records no rule matches; every
\* ordering of the rule list under which the filtering completes keeps the
\* same records; and a predicate rule removes exactly the records it
\* returns true for, whatever the other rules are.
C8_ExclusionIsLogicalOr ==
    /\ queryRecords.ran =>
          \A k \in DOMAIN queryRecords.sources :
              queryRecords.sources[k].hasEdges =>
                  ExclusionIsOr(InputEdges(k), queryRecords.sources[k].edges, opts.exclude)
    /\ defaultQueryRecords.ran =>
          ExclusionIsOr(env.pages, defaultQueryRecords.allSitePage.edges, opts.exclude)

\* Witness of C8: a list of a literal rule and the predicate rule has
\* removed some records, each rule some the other does not match, and has
\* kept others.
C8_Witness ==
    /\ queryRecords.ran
    /\ Len(opts.exclude) = 2
    /\ opts.exclude[1].kind = "string" /\ opts.exclude[2] = FunctionRule
    /\ \E k \in DOMAIN queryRecords.sources :
          LET input == InputEdges(k)
              kept == queryRecords.sources[k].edges
          IN  /\ kept # <<>>
              /\ \E i \in 1..Len(input) :
                    /\ RuleOutcome(opts.exclude[1], input[i]) = "match"
                    /\ ~input[i].flag
              /\ \E i \in 1..Len(input) :
                    /\ RuleOutcome(opts.exclude[1], input[i]) = "nomatch"
                    /\ input[i].flag

\* The slug or rule with its leading and its trailing slash stripped.
StripBoth(s) ==
    LET t == IF s # <<>> /\ Head(s) = "/" THEN Tail(s) ELSE s
    IN  IF t # <<>> /\ t[Len(t)] = "/" THEN SubSeq(t, 1, Len(t) - 1) ELSE t

\* C9: under a single literal rule, the records removed are exactly those
\* whose slug, with leading and trailing slash stripped, contains the rule
\* with its own leading and trailing slash stripped.
C9_LiteralRuleOnNormalizedSlug ==
    (queryRecords.ran /\ Len(opts.exclude) = 1 /\ opts.exclude[1].kind = "string") =>
        \A k \in DOMAIN queryRecords.sources :
            queryRecords.sources[k].hasEdges =>
                queryRecords.sources[k].edges
                    = SelectSeq(InputEdges(k),
                                LAMBDA n : ~Contains(StripBoth(n.slug),
                                                     StripBoth(opts.exclude[1].pat)))

(* --------------------------- custom serializers ------------------------ *)
CallsFor(k) == SelectSeq(serializerCalls, LAMBDA c : c.sourceKey = k)

\* runQuery has gone through the sources of the custom query.
SourcesProcessed == queryRecords.ran

\* C10 as stated: every source with a serializer configured has it invoked
\* exactly once, with the fetched edge list.
C10_SerializerOncePerConfiguredSource ==
    SourcesProcessed =>
        \A i \in 1..Len(opts.queries) :
            LET k == opts.queries[i].queryKey
            IN  SerializerOf(k) # "none" =>
                    /\ Len(CallsFor(k)) = 1
                    /\ CallsFor(k)[1].edges = RawSources[k].edges

\* C10 amended: a serializer is invoked only for a source of the custom
\* query that has one configured and whose fetched result has an edges
\* array, at most once, with the whole fetched array, unfiltered; after
\* runQuery such a source has had exactly one invocation and its edges are
\* the serializer's array with the exclusion rules applied, while a source
\* without edges array has had none; a non-array return fails onPostBuild.
C10_SerializerOncePerSourceWithEdges ==
    /\ \A i \in 1..Len(serializerCalls) :
          LET k == serializerCalls[i].sourceKey
          IN  /\ SerializerApplies(k)
              /\ Len(CallsFor(k)) = 1
              /\ serializerCalls[i].edges = RawSources[k].edges
              /\ SerializerOf(k) = "nonarray"
                    => pc = "failed" /\ err = "serializer" /\ ~queryRecords.ran
    /\ SourcesProcessed =>
          \A i \in 1..Len(opts.queries) :
              LET k == opts.queries[i].queryKey
              IN  /\ Len(CallsFor(k)) = (IF SerializerApplies(k) THEN 1 ELSE 0)
                  /\ SerializerApplies(k) =>
                        /\ SerializerOf(k) # "nonarray"
                        /\ queryRecords.sources[k].edges
                              = SelectSeq(SerializerResult(SerializerOf(k), RawSources[k].edges),
                                          LAMBDA n : NoRuleMatches(opts.exclude, n))

\* Witness of C10: the serializer that keeps the first edge was invoked
\* with two edges, and the predicate rule then removed the edge it returned.
C10_Witness ==
    /\ SourcesProcessed
    /\ SerializerOf("allGhostPost") = "first"
    /\ Len(CallsFor("allGhostPost")) = 1
    /\ Len(CallsFor("allGhostPost")[1].edges) = 2
    /\ opts.exclude = <<FunctionRule>>
    /\ queryRecords.sources["allGhostPost"].edges = <<>>


(* ---------------------------- skipDefaultQuery ------------------------- *)
\* serialize has returned into onPostBuild.
Serialized ==
    \/ pc \in {"copyStylesheet", "render", "writeIndex", "writeResources", "done"}
    \/ pc = "failed" /\ errAt = "copyStylesheet"

DefaultQueryIssued == \E i \in 1..Len(reqLog) : reqLog[i].query = "default"

\* The addUrls calls serialize makes out of the records of the custom query
\* alone, for a site URL.
FedFromCustomRecords(site) ==
    LET sources == IF queryRecords.ran THEN queryRecords.sources ELSE EmptyMap
        keys == IF queryRecords.ran THEN QueryKeys ELSE <<>>
        a == FeedSources([sourceObject |-> EmptyMap, fed |-> <<>>], keys, sources, site)
        own == IF "pages" \in DOMAIN a.sourceObject THEN a.sourceObject["pages"] ELSE <<>>
    IN  a.fed \o Calls("pages", UniqByUrl(own, {}))

\* The default query is not executed, and serialize takes neither the site
\* URL nor a page from it.
UsesNoDefaultResult ==
    /\ ~DefaultQueryIssued
    /\ ~defaultQueryRecords.ran
    /\ pluginOptions.siteUrl = "" => ~Serialized
    /\ Serialized =>
          /\ siteURL = pluginOptions.siteUrl
          /\ fed = FedFromCustomRecords(siteURL)

UnpagedRequestFailed(i) == ~reqLog[i].paged /\ ~respLog[i].ok

\* C12: when the default query, a single-shot query or a paging fallback
\* request fails, onPostBuild ends with a query error: the failed request is
\* the last one issued, no step can follow, nothing was fed to the manager,
\* nothing rendered and no file (stylesheet or sitemap document) written.
C12_FailFast ==
    \A i \in 1..Len(respLog) :
        UnpagedRequestFailed(i) =>
            /\ pc = "failed"
            /\ err \in {"defaultQuery", "customQuery"}
            /\ i = Len(reqLog) /\ outstanding = {}
            /\ ~ENABLED Next
            /\ fed = <<>> /\ rendered = <<>> /\ writes = <<>>

\* Witness of C12: after an answered default query, the fallback of the
\* first of two custom queries failed.
C12_Witness ==
    /\ pc = "failed" /\ errAt = "awaitFallback"
    /\ defaultQueryRecords.ran
    /\ qi < Len(opts.queries)
    /\ UnpagedRequestFailed(Len(respLog))


(* ------------------------- feeding the manager ------------------------- *)
\* The addUrls calls that pass the entry of one record to one bucket.
FeedsOf(bucket, node) ==
    {j \in 1..Len(fed) : fed[j].bucket = bucket /\ fed[j].entry.node = node}

\* C13: once serialize has returned, every record of a mapped source (as it
\* survived exclusion) was passed to addUrls exactly once for its bucket,
\* and no bucket, `pages` included, was passed the same entry twice.
C13_EveryEntryFedOnce ==
    Serialized =>
        /\ \A k \in DOMAIN queryRecords.sources :
              (k \in DOMAIN opts.mapping /\ queryRecords.sources[k].hasEdges) =>
                  \A i \in 1..Len(queryRecords.sources[k].edges) :
                      Cardinality(FeedsOf(opts.mapping[k].sitemap,
                                          queryRecords.sources[k].edges[i])) = 1
        /\ \A i, j \in 1..Len(fed) :
              (i # j /\ fed[i].bucket = fed[j].bucket) => fed[i].entry # fed[j].entry


(* -------------------------- shared default options --------------------- *)
\* C14: whatever invocations came before, onPostBuild starts with options
\* built from the defaults as the module defines them and from its own
\* pluginOptions only: the earlier invocations left defaultOptions alone.
C14_OptionsFromOwnPluginOptions ==
    pc = "start" => opts = Options(PristineDefaultOptions, pluginOptions)

=============================================================================
